---- MODULE Spec2Model ----
(***************************************************************************)
(* Model of the diy-lisp evaluator (src/diylisp/evaluator.py) driven as in *)
(* src/test.py: a parsed program is handed to evaluate together with a     *)
(* fresh root Environment.                                                  *)
(*                                                                         *)
(* The recursion of evaluate is run on an explicit stack.  A frame is a    *)
(* suspended activation of one of the evaluator's functions, waiting at    *)
(* the source line of a nested evaluate call.  Every Python function of    *)
(* the evaluator is an operator of the same name: its code from entry to   *)
(* its first nested evaluate call; <name>Resume is its code from the       *)
(* return of a nested call to the next one.  Both take the interpreter     *)
(* store `st` (environments, rewritten AST head slots, print output, the   *)
(* allocation counters of closures and of other objects) and yield an      *)
(* outcome: return a value, raise an exception, or call evaluate leaving a *)
(* frame behind.                                                            *)
(***************************************************************************)
EXTENDS Integers, Sequences, FiniteSets, TLC

VARIABLES program, pc, ncalls, ctl, stack, envs, rew, out, nclo, nobj, result, err

vars == <<program, pc, ncalls, ctl, stack, envs, rew, out, nclo, nobj, result, err>>

(***************************************************************************)
(* Bounds of the model.                                                    *)
(***************************************************************************)
\* the host's limit on the depth of its call stack (sys.getrecursionlimit())
RecursionLimit == 1000
\* largest argument of the factorial programs
MaxFact == 6
\* largest integer literal drawn for the parametrised programs
MaxLit == 2

(***************************************************************************)
(* Values.  An AST value is a tagged record [k, v, id]; the parser's       *)
(* output uses the kinds int, bool, sym and list only.  id names the       *)
(* object of the host that holds the value: <<0>> \o p for the object the  *)
(* parser made for the node at path p of the program, <<n>> for the n-th   *)
(* object the evaluator made, and <<>> where the identity is settled by    *)
(* the value (Shareable) or is not given, as in the text of a program.     *)
(***************************************************************************)
Anon == <<>>
I(n) == [k |-> "int", v |-> n, id |-> Anon]
B(b) == [k |-> "bool", v |-> b, id |-> Anon]
S(s) == [k |-> "sym", v |-> s, id |-> Anon]
L(s) == [k |-> "list", v |-> s, id |-> Anon]
None == [k |-> "none", v |-> 0, id |-> Anon]
Closure(id, env, params, body) ==
    [k |-> "closure", v |-> [id |-> id, env |-> env, params |-> params, body |-> body],
     id |-> Anon]

is_symbol(x) == x.k = "sym"
is_boolean(x) == x.k = "bool"
is_integer(x) == x.k = "int"
is_list(x) == x.k = "list"
is_closure(x) == x.k = "closure"
is_atom(x) == is_symbol(x) \/ is_integer(x) \/ is_boolean(x)

commands == {"quote", "atom", "eq", "if", "define", "lambda", "print"}
arithmeticOps == {"+", "-", "*", "/", "mod", ">", "<"}
listOps == {"cons", "head", "tail", "empty"}
allCommands == commands \cup arithmeticOps \cup listOps

(***************************************************************************)
(* Python objects reachable as `ast`.  The parsed program is a tree of     *)
(* list objects; a list object is named by its path from the root.  The    *)
(* only in-place mutation is `ast[0] = func`, recorded in rew (path ->     *)
(* closure).  `ast[1:]` is a fresh list whose elements are the same        *)
(* objects: a slice handle, whose own head slot (hd) is private to it.     *)
(***************************************************************************)
RECURSIVE Get(_, _)
Get(tree, path) ==
    IF path = <<>> THEN tree ELSE Get(tree.v[Head(path)], Tail(path))

Node(p) == [t |-> "node", p |-> p, from |-> 1, hd |-> None]
Slice(p, i, hd) == [t |-> "slice", p |-> p, from |-> i, hd |-> hd]
Obj(v) == [t |-> "obj", p |-> <<>>, from |-> 1, hd |-> v]
EmptyList == [t |-> "nil", p |-> <<>>, from |-> 1, hd |-> None]

\* the value of the object a handle denotes
ValueOf(h) ==
    CASE h.t = "node" -> Get(program, h.p)
      [] h.t = "obj" -> h.hd
      [] OTHER -> L(<<>>)

KindOf(h) == ValueOf(h).k

\* len(ast)
LenOf(h) ==
    CASE h.t = "node" -> Len(Get(program, h.p).v)
      [] h.t = "slice" -> Len(Get(program, h.p).v) - h.from + 1
      [] OTHER -> 0

\* ast[0]
First(h, st) ==
    IF h.t = "node"
    THEN IF h.p \in DOMAIN st.rew THEN Obj(st.rew[h.p]) ELSE Node(h.p \o <<1>>)
    ELSE IF h.hd # None THEN Obj(h.hd) ELSE Node(h.p \o <<h.from>>)

\* ast[1:]
Rest(h) ==
    IF h.t = "nil" THEN EmptyList ELSE Slice(h.p, h.from + 1, None)

\* args[j-1] of a list made by ast[1:]
Arg(args, j) == Node(args.p \o <<args.from + j - 1>>)

(***************************************************************************)
(* Exceptions, frames and the outcomes of running a function up to its     *)
(* next nested evaluate call.                                               *)
(***************************************************************************)
NoError == [type |-> "", msg |-> ""]
LispError(msg) == [type |-> "LispError", msg |-> msg]
HostError(type) == [type |-> type, msg |-> ""]

\* the activation of fn suspended at `line`, with the locals it still needs:
\* ast (its list argument), env, command, closure, the values got so far;
\* depth is the depth on the host stack of the evaluate call it waits for
Frame(fn, line, ast, env, command, closure, vals) ==
    [fn |-> fn, line |-> line, ast |-> ast, env |-> env,
     command |-> command, closure |-> closure, vals |-> vals, depth |-> 0]

\* deep is the number of levels of the host stack the function entered
\* below its own frame, for the calls that return before the outcome: the
\* predicates, the Environment methods, the Closure constructor, and the
\* calls the host counts without a frame of their own (a call of a class
\* such as LispError(msg), a comparison, isinstance)
Ret(st, val) == [t |-> "ret", st |-> st, val |-> val, deep |-> 0]
Raise(st, e) == [t |-> "raise", st |-> st, err |-> e, deep |-> 0]
Call(st, ast, env, frame) ==
    [t |-> "call", st |-> st, ast |-> ast, env |-> env, frame |-> frame,
     deep |-> 0]

\* the outcome o of a function that had called n frames deep before
Leaf(n, o) == [o EXCEPT !.deep = IF @ < n THEN n ELSE @]

\* the outcome o of a called function, seen from its caller
Sub(o) == [o EXCEPT !.deep = @ + 1]

(***************************************************************************)
(* Host (Python 2) operations the evaluator relies on.                     *)
(***************************************************************************)
\* a == b
RECURSIVE PyEq(_, _)
PyEq(a, b) ==
    LET num(x) == IF x.k = "int" THEN x.v ELSE IF x.v THEN 1 ELSE 0 IN
    CASE a.k \in {"int", "bool"} /\ b.k \in {"int", "bool"} -> num(a) = num(b)
      [] a.k = "sym" /\ b.k = "sym" -> a.v = b.v
      [] a.k = "none" /\ b.k = "none" -> TRUE
      [] a.k = "closure" /\ b.k = "closure" -> a.v.id = b.v.id
      [] a.k = "list" /\ b.k = "list" ->
            /\ Len(a.v) = Len(b.v)
            /\ \A i \in 1..Len(a.v) : PyEq(a.v[i], b.v[i])
      [] OTHER -> FALSE

\* the values of which the host keeps one object each: the singletons
\* None, True and False, the small ints and the strings of at most one
\* character; and a Closure, which v.id tells from every other
SmallInts == (0 - 5)..256
Shareable(x) ==
    \/ x.k \in {"none", "bool", "closure"}
    \/ x.k = "int" /\ x.v \in SmallInts
    \/ x.k = "sym" /\ Len(x.v) <= 1

\* x as the object `id`, unless the host shares it
As(x, id) == IF Shareable(x) THEN x ELSE [x EXCEPT !.id = id]

\* the object parse made for the node `tree` at `path` of the program: an
\* object of its own for every list, int and string of the text
RECURSIVE Parsed(_, _)
Parsed(tree, path) ==
    IF tree.k = "list"
    THEN As([tree EXCEPT !.v = [i \in 1..Len(tree.v) |->
                                  Parsed(tree.v[i], Append(path, i))]],
            <<0>> \o path)
    ELSE As(tree, <<0>> \o path)

\* the object a handle denotes
ObjectOf(h) == IF h.t = "node" THEN Parsed(Get(program, h.p), h.p) ELSE ValueOf(h)

\* the object the evaluator makes for x, and the store after it has
New(st, x) == As(x, <<st.nobj + 1>>)
Made(st, x) == IF Shareable(x) THEN st ELSE [st EXCEPT !.nobj = @ + 1]

\* x without the identities of its objects: what str(x) depends on
RECURSIVE Plain(_)
Plain(x) ==
    IF x.k = "list"
    THEN L([i \in 1..Len(x.v) |-> Plain(x.v[i])])
    ELSE [x EXCEPT !.id = Anon]

\* a is b
Is(a, b) == a.k = b.k /\ a.id = b.id /\ (a.id = Anon => a.v = b.v)

\* the last index at which a == b compares the items of two lists of one
\* length: the first index where they differ, else the length
LastCompared(a, b) ==
    IF \E i \in 1..Len(a.v) : ~PyEq(a.v[i], b.v[i])
    THEN CHOOSE i \in 1..Len(a.v) :
           /\ ~PyEq(a.v[i], b.v[i])
           /\ \A j \in 1..(i - 1) : PyEq(a.v[j], b.v[j])
    ELSE Len(a.v)

RECURSIVE Largest(_)
Largest(ns) ==
    IF ns = {} THEN 0
    ELSE LET n == CHOOSE x \in ns : TRUE
             m == Largest(ns \ {n})
         IN IF n > m THEN n ELSE m

\* the levels of the host stack the rich comparison of a with b enters: one
\* of its own, and below it those of the comparisons of the items of two
\* lists of one length, of which an item that is one object with its
\* partner takes none
RECURSIVE CompareDeep(_, _)
CompareDeep(a, b) ==
    IF a.k = "list" /\ b.k = "list" /\ Len(a.v) = Len(b.v)
    THEN 1 + Largest({IF Is(a.v[i], b.v[i]) THEN 0
                      ELSE CompareDeep(a.v[i], b.v[i]) :
                        i \in 1..LastCompared(a, b)})
    ELSE 1

\* the levels a == b enters, as an expression of the evaluator: two ints are
\* compared in place, any other two values by the rich comparison, be they
\* one object or two
EqDeep(a, b) ==
    IF a.k = "int" /\ b.k = "int" THEN 0 ELSE CompareDeep(a, b)

\* bool(x), the test of an `if` statement
PyTruth(x) ==
    CASE x.k = "int" -> x.v # 0
      [] x.k = "bool" -> x.v
      [] x.k = "list" -> Len(x.v) > 0
      [] x.k = "none" -> FALSE
      [] x.k = "sym" -> x.v # ""
      [] OTHER -> TRUE

\* int(s) of a string: white space, an optional sign, white space, one or
\* more decimal digits, white space.  White space is what isspace() holds
\* of, the vertical tab included
Whitespace == {" ", "\t", "\n", "\r", "\f", ""}
Digits == <<"0", "1", "2", "3", "4", "5", "6", "7", "8", "9">>
At(s, i) == SubSeq(s, i, i)
IsDigit(c) == \E d \in 1..10 : Digits[d] = c
DigitValue(c) == (CHOOSE d \in 1..10 : Digits[d] = c) - 1

\* s without its leading white space
RECURSIVE SkipSpace(_)
SkipSpace(s) ==
    IF Len(s) > 0 /\ At(s, 1) \in Whitespace
    THEN SkipSpace(SubSeq(s, 2, Len(s)))
    ELSE s

\* s without its leading and trailing white space
RECURSIVE Strip(_)
Strip(s) ==
    IF Len(s) > 0 /\ At(s, Len(s)) \in Whitespace
    THEN Strip(SubSeq(s, 1, Len(s) - 1))
    ELSE SkipSpace(s)

\* the stripped s without its sign and the white space after the sign
Unsigned(s) ==
    IF Len(s) > 0 /\ At(s, 1) \in {"+", "-"}
    THEN SkipSpace(SubSeq(s, 2, Len(s)))
    ELSE s

IsNumeral(s) ==
    /\ Len(Unsigned(Strip(s))) > 0
    /\ \A i \in 1..Len(Unsigned(Strip(s))) : IsDigit(At(Unsigned(Strip(s)), i))

RECURSIVE DigitsValue(_)
DigitsValue(s) ==
    IF Len(s) = 0 THEN 0
    ELSE 10 * DigitsValue(SubSeq(s, 1, Len(s) - 1)) + DigitValue(At(s, Len(s)))

NumeralValue(s) ==
    IF At(Strip(s), 1) = "-"
    THEN 0 - DigitsValue(Unsigned(Strip(s)))
    ELSE DigitsValue(Unsigned(Strip(s)))

\* int(x) succeeds on these values
IntOk(x) == x.k \in {"int", "bool"} \/ (x.k = "sym" /\ IsNumeral(x.v))

\* int(x)
PyInt(x) ==
    CASE x.k = "int" -> x.v
      [] x.k = "bool" -> IF x.v THEN 1 ELSE 0
      [] OTHER -> NumeralValue(x.v)

\* the exception int(x) raises on the other values
IntError(x) == IF x.k = "sym" THEN HostError("ValueError") ELSE HostError("TypeError")

\* x / y on Python 2 ints: floor division
PyDiv(x, y) ==
    IF y > 0 THEN x \div y ELSE (0 - x) \div (0 - y)

\* x % y: the remainder has the sign of y
PyMod(x, y) ==
    IF y > 0 THEN x % y ELSE 0 - ((0 - x) % (0 - y))

(***************************************************************************)
(* Environment (types.py): a chain of local binding maps.  envs is the     *)
(* heap of Environment objects, an Environment reference is its index, the *)
(* parent of the root is 0.  A binding map is a Python dict: the sequence  *)
(* of its [key, val] items in order of insertion; keys are equal when ==   *)
(* holds of them (so 1 and True are one key).                               *)
(***************************************************************************)
NoBindings == <<>>

Environment == [parent |-> 0, vars |-> NoBindings]

\* the position of key in the dict, 0 when it is absent
Index(dict, key) ==
    IF \E i \in 1..Len(dict) : PyEq(dict[i].key, key)
    THEN CHOOSE i \in 1..Len(dict) : PyEq(dict[i].key, key)
    ELSE 0

\* the keys of the dict
Keys(dict) == {dict[i].key : i \in 1..Len(dict)}

\* d[key] = val: an equal key keeps its place and its first spelling
Put(dict, key, val) ==
    IF Index(dict, key) # 0
    THEN [dict EXCEPT ![Index(dict, key)].val = val]
    ELSE Append(dict, [key |-> key, val |-> val])

\* env.lookup(symbol): the local bindings, then those of each ancestor in
\* turn, within the one call; raise LispError(...) calls the exception
\* class, one host level below lookup's frame
RECURSIVE lookup(_, _, _)
lookup(st, env, symbol) ==
    IF Index(st.envs[env].vars, S(symbol)) # 0
    THEN Ret(st, st.envs[env].vars[Index(st.envs[env].vars, S(symbol))].val)
    ELSE IF st.envs[env].parent = 0
    THEN Leaf(1, Raise(st, LispError("UnboundSymbolError")))
    ELSE lookup(st, st.envs[env].parent, symbol)

\* env.set binding in the root environment, whatever env is
setInRoot(st, env, symbol, value) ==
    [st EXCEPT !.envs[1].vars = Put(@, S(symbol), value)]

\* env.set(symbol, value): the local bindings of env only
set(st, env, symbol, value) ==
    [st EXCEPT !.envs[env].vars = Put(@, S(symbol), value)]

\* dict(zip(params, values)): the pairs are inserted from left to right, up
\* to the shorter length
RECURSIVE zipDict(_, _)
zipDict(params, values) ==
    IF params = <<>> \/ values = <<>> THEN NoBindings
    ELSE LET n == IF Len(params) < Len(values) THEN Len(params) ELSE Len(values) IN
         Put(zipDict(SubSeq(params, 1, n - 1), SubSeq(values, 1, n - 1)),
             params[n], values[n])

\* env.extend(bindings): a fresh child, appended to the heap; its reference
\* is Len(envs) of the returned store
extend(st, env, bindings) ==
    [st EXCEPT !.envs = Append(@, [parent |-> env, vars |-> bindings])]

(***************************************************************************)
(* The evaluator.                                                           *)
(***************************************************************************)
evalQuoteCommand(args, env, st) ==
    IF LenOf(args) # 1
    THEN Leaf(1, Raise(st, LispError("quote command expects exactly one argument")))
    ELSE Ret(st, ObjectOf(Arg(args, 1)))

evalAtomCommand(args, env, st) ==
    IF LenOf(args) # 1
    THEN Leaf(1, Raise(st, LispError("atom command expects exactly one argument")))
    ELSE Leaf(1, Ret(st, B(is_atom(ValueOf(Arg(args, 1))))))

evalEqCommand(args, env, st) ==
    IF LenOf(args) # 2
    THEN Leaf(1, Raise(st, LispError("eq command expects exactly two arguments")))
    ELSE Call(st, Arg(args, 1), env,
              Frame("evalEqCommand", 99, args, env, "", None, <<>>))

\* line 99: the left operand returned, then the right one, then ==
evalEqCommandResume(f, val, st) ==
    IF f.vals = <<>>
    THEN Call(st, Arg(f.ast, 2), f.env,
              Frame("evalEqCommand", 99, f.ast, f.env, "", None, <<val>>))
    ELSE Leaf(EqDeep(f.vals[1], val), Ret(st, B(PyEq(f.vals[1], val))))

evalIfCommand(args, env, st) ==
    IF LenOf(args) # 3
    THEN Leaf(1, Raise(st, LispError("if command expects exactly three arguments")))
    ELSE Call(st, Arg(args, 1), env,
              Frame("evalIfCommand", 105, args, env, "", None, <<>>))

\* evalIfCommandResume with the two branches exchanged
evalIfCommandResumeSwapped(f, val, st) ==
    IF f.line = 105
    THEN IF PyTruth(val)
         THEN Call(st, Arg(f.ast, 3), f.env,
                   Frame("evalIfCommand", 110, f.ast, f.env, "", None, <<>>))
         ELSE Call(st, Arg(f.ast, 2), f.env,
                   Frame("evalIfCommand", 108, f.ast, f.env, "", None, <<>>))
    ELSE Ret(st, val)

\* line 105: the predicate returned; lines 108 and 110: the branch returned
evalIfCommandResume(f, val, st) ==
    IF f.line = 105
    THEN IF PyTruth(val)
         THEN Call(st, Arg(f.ast, 2), f.env,
                   Frame("evalIfCommand", 108, f.ast, f.env, "", None, <<>>))
         ELSE Call(st, Arg(f.ast, 3), f.env,
                   Frame("evalIfCommand", 110, f.ast, f.env, "", None, <<>>))
    ELSE Ret(st, val)

evalDefineCommand(args, env, st) ==
    IF LenOf(args) # 2
    THEN Leaf(1, Raise(st, LispError("define command expects exactly two arguments")))
    ELSE IF ~is_symbol(ValueOf(Arg(args, 1)))
    THEN Leaf(1, Raise(st, LispError("define command expects a symbol as parameter 1")))
    ELSE Leaf(1, Call(st, Arg(args, 2), env,
                      Frame("evalDefineCommand", 119, args, env, "", None, <<>>)))

\* line 119: the value returned
evalDefineCommandResume(f, val, st) ==
    Leaf(1, Ret(set(st, f.env, ValueOf(Arg(f.ast, 1)).v, val), None))

evalPrintCommand(args, env, st) ==
    IF LenOf(args) # 1
    THEN Leaf(1, Raise(st, LispError("print command expects exactly one arguments")))
    ELSE Call(st, Arg(args, 1), env,
              Frame("evalPrintCommand", 127, args, env, "", None, <<>>))

\* line 127: the argument returned; what is printed does not tell one
\* object from another of the same value
evalPrintCommandResume(f, val, st) ==
    Ret([st EXCEPT !.out = Append(@, Plain(val))], val)

evalArithmeticCommand(command, args, env, st) ==
    IF LenOf(args) # 2
    THEN Leaf(1, Raise(st, LispError(command \o " command expects exactly two arguments")))
    ELSE Call(st, Arg(args, 1), env,
              Frame("evalArithmeticCommand", 138, args, env, command, None, <<>>))

\* the int n an operator computed: a new object unless n is small
Computed(st, n) == Ret(Made(st, I(n)), New(st, I(n)))

\* lines 143-158, on the converted operands
Arithmetic(command, x, y, st) ==
    CASE command = "+" -> Computed(st, x + y)
      [] command = "-" -> Computed(st, x - y)
      [] command = "*" -> Computed(st, x * y)
      [] command = "/" ->
           IF y = 0 THEN Raise(st, HostError("ZeroDivisionError"))
           ELSE Computed(st, PyDiv(x, y))
      [] command = "mod" ->
           IF y = 0 THEN Raise(st, HostError("ZeroDivisionError"))
           ELSE Computed(st, PyMod(x, y))
      [] command = ">" -> Ret(st, B(x > y))
      [] command = "<" -> Ret(st, B(x < y))
      [] OTHER -> Leaf(1, Raise(st, LispError("Invalid arithmetic command")))

\* line 138: the first operand returned; line 139: the second one
evalArithmeticCommandResume(f, val, st) ==
    IF ~IntOk(val) THEN Raise(st, IntError(val))
    ELSE IF f.line = 138
    THEN Call(st, Arg(f.ast, 2), f.env,
              Frame("evalArithmeticCommand", 139, f.ast, f.env, f.command,
                    None, <<I(PyInt(val))>>))
    ELSE Arithmetic(f.command, f.vals[1].v, PyInt(val), st)

\* evalLambdaCommand without the case of the empty parameter list
evalLambdaCommandAlwaysClosure(args, env, st) ==
    IF LenOf(args) # 2
    THEN Leaf(1, Raise(st, LispError("lambda command expects exactly two arguments")))
    ELSE IF ~is_list(ValueOf(Arg(args, 1)))
    THEN Leaf(1, Raise(st, LispError("lambda first parameter is expected to be a list")))
    ELSE Leaf(1, Ret([st EXCEPT !.nclo = @ + 1],
                     Closure(st.nclo + 1, env, ValueOf(Arg(args, 1)).v, Arg(args, 2).p)))

evalLambdaCommand(args, env, st) ==
    IF LenOf(args) # 2
    THEN Leaf(1, Raise(st, LispError("lambda command expects exactly two arguments")))
    ELSE LET params == ValueOf(Arg(args, 1))
             body == Arg(args, 2)
         IN
         IF ~is_list(params)
         THEN Leaf(1, Raise(st, LispError("lambda first parameter is expected to be a list")))
         ELSE IF Len(params.v) = 0
              THEN Leaf(1, Call(st, body, env,
                                Frame("evalLambdaCommand", 172, args, env, "", None, <<>>)))
              ELSE Leaf(1, Ret([st EXCEPT !.nclo = @ + 1],
                               Closure(st.nclo + 1, env, params.v, body.p)))

\* line 172: the body of the parameterless lambda returned
evalLambdaCommandResume(f, val, st) == Ret(st, val)

\* evaluatedParams taking the argument expressions from the last to the first
evaluatedParamsReversed(c, params, env, vals, st) ==
    IF Len(vals) < LenOf(params)
    THEN Call(st, Arg(params, LenOf(params) - Len(vals)), env,
              Frame("evalClosure", 183, params, env, "", c, vals))
    ELSE IF \E i \in 1..Len(c.v.params) : is_list(c.v.params[i])
    THEN Raise(st, HostError("TypeError"))
    ELSE LET rev == [i \in 1..Len(vals) |-> vals[Len(vals) + 1 - i]]
             ext == extend(st, c.v.env, zipDict(c.v.params, rev))
             closureEnv == Len(ext.envs)
         IN Leaf(2, Call(ext, Node(c.v.body), closureEnv,
                         Frame("evalClosure", 185, params, env, "", c, <<>>)))

\* lines 183-185 once the first Len(vals) argument expressions are evaluated
\* into vals: evaluate the next one, or bind them all and evaluate the body
evaluatedParams(c, params, env, vals, st) ==
    IF Len(vals) < LenOf(params)
    THEN Call(st, Arg(params, Len(vals) + 1), env,
              Frame("evalClosure", 183, params, env, "", c, vals))
    ELSE IF \E i \in 1..Len(c.v.params) : is_list(c.v.params[i])
    THEN Raise(st, HostError("TypeError"))
    ELSE LET ext == extend(st, c.v.env, zipDict(c.v.params, vals))
             closureEnv == Len(ext.envs)
         IN Leaf(2, Call(ext, Node(c.v.body), closureEnv,
                         Frame("evalClosure", 185, params, env, "", c, <<>>)))

\* evalClosure without the comparison of the two lengths
evalClosureUnchecked(closure, params, env, st) ==
    IF ~is_closure(ValueOf(closure))
    THEN Leaf(1, Raise(st, LispError("Expect a function closure")))
    ELSE Leaf(1, evaluatedParams(ValueOf(closure), params, env, <<>>, st))

evalClosure(closure, params, env, st) ==
    IF ~is_closure(ValueOf(closure))
    THEN Leaf(1, Raise(st, LispError("Expect a function closure")))
    ELSE IF Len(ValueOf(closure).v.params) # LenOf(params)
    THEN Leaf(1, Raise(st, LispError(ToString(Len(ValueOf(closure).v.params))
                 \o " parameters expected by function, "
                 \o ToString(LenOf(params)) \o " are passed")))
    ELSE Leaf(1, evaluatedParams(ValueOf(closure), params, env, <<>>, st))

\* line 183: an argument returned; line 185: the body returned
evalClosureResume(f, val, st) ==
    IF f.line = 183
    THEN evaluatedParams(f.closure, f.ast, f.env, Append(f.vals, val), st)
    ELSE Ret(st, val)

evalConsCommand(args, env, st) ==
    IF LenOf(args) # 2
    THEN Leaf(1, Raise(st, LispError("cons command expects exactly two arguments")))
    ELSE Call(st, Arg(args, 1), env,
              Frame("evalConsCommand", 204, args, env, "", None, <<>>))

\* line 204: head returned; line 205: rest returned; lines 210-213: a new
\* list of the same items
evalConsCommandResume(f, val, st) ==
    IF f.line = 204
    THEN Call(st, Arg(f.ast, 2), f.env,
              Frame("evalConsCommand", 205, f.ast, f.env, "", None, <<val>>))
    ELSE IF ~is_list(val)
    THEN Leaf(1, Raise(st, LispError("cons command expects a list as second argument")))
    ELSE Leaf(1, Ret(Made(st, L(<<f.vals[1]>> \o val.v)),
                     New(st, L(<<f.vals[1]>> \o val.v))))

evalHeadCommand(args, env, st) ==
    IF LenOf(args) # 1
    THEN Leaf(1, Raise(st, LispError("head command expects exactly one argument")))
    ELSE Call(st, Arg(args, 1), env,
              Frame("evalHeadCommand", 219, args, env, "", None, <<>>))

\* line 219: the argument returned
evalHeadCommandResume(f, val, st) ==
    IF ~is_list(val)
    THEN Leaf(1, Raise(st, LispError("head command expects a list as argument")))
    ELSE IF Len(val.v) = 0
    THEN Leaf(1, Raise(st, LispError("head command expect non-empty list")))
    ELSE Leaf(1, Ret(st, val.v[1]))

evalTailCommand(args, env, st) ==
    IF LenOf(args) # 1
    THEN Leaf(1, Raise(st, LispError("tail command expects exactly one argument")))
    ELSE Call(st, Arg(args, 1), env,
              Frame("evalTailCommand", 233, args, env, "", None, <<>>))

\* line 233: the argument returned; line 241: a new list of the same items
evalTailCommandResume(f, val, st) ==
    IF ~is_list(val)
    THEN Leaf(1, Raise(st, LispError("tail command expects a list as argument")))
    ELSE IF Len(val.v) = 0
    THEN Leaf(1, Raise(st, LispError("tail command expect non-empty list")))
    ELSE Leaf(1, Ret(Made(st, L(Tail(val.v))), New(st, L(Tail(val.v)))))

evalEmptyCommand(args, env, st) ==
    IF LenOf(args) # 1
    THEN Leaf(1, Raise(st, LispError("tail command expects exactly one argument")))
    ELSE Call(st, Arg(args, 1), env,
              Frame("evalEmptyCommand", 248, args, env, "", None, <<>>))

\* line 248: the argument returned
evalEmptyCommandResume(f, val, st) ==
    IF ~is_list(val)
    THEN Leaf(1, Raise(st, LispError("tail command expects a list as argument")))
    ELSE Leaf(1, Ret(st, B(Len(val.v) = 0)))

evalListCommand(command, args, env, st) ==
    CASE command = "cons" -> Sub(evalConsCommand(args, env, st))
      [] command = "head" -> Sub(evalHeadCommand(args, env, st))
      [] command = "tail" -> Sub(evalTailCommand(args, env, st))
      [] command = "empty" -> Sub(evalEmptyCommand(args, env, st))
      [] OTHER -> Leaf(1, Raise(st, LispError("Invalid list command")))

evalCommand(command, args, env, st) ==
    CASE command = "quote" -> Sub(evalQuoteCommand(args, env, st))
      [] command = "atom" -> Sub(evalAtomCommand(args, env, st))
      [] command = "eq" -> Sub(evalEqCommand(args, env, st))
      [] command = "if" -> Sub(evalIfCommand(args, env, st))
      [] command = "define" -> Sub(evalDefineCommand(args, env, st))
      [] command = "lambda" -> Sub(evalLambdaCommand(args, env, st))
      [] command = "print" -> Sub(evalPrintCommand(args, env, st))
      [] command \in arithmeticOps ->
           Sub(evalArithmeticCommand(command, args, env, st))
      [] command \in listOps -> Sub(evalListCommand(command, args, env, st))
      [] OTHER -> Ret(st, None)

\* ast[0] = func: in place for a list of the program, on the fresh list's
\* own head slot for a list made by ast[1:]
SetFirst(ast, st, func) ==
    IF ast.t = "node"
    THEN [ast |-> ast, st |-> [st EXCEPT !.rew = (ast.p :> func) @@ @]]
    ELSE [ast |-> Slice(ast.p, ast.from, func), st |-> st]

\* lines 42-47: the head is a symbol that is not a command
evaluateSymbolHead(ast, first, env, st) ==
    LET func == Sub(lookup(st, env, first)) IN
    IF func.t = "raise" THEN func
    ELSE IF ~is_closure(func.val)
    THEN Leaf(func.deep,
              Raise(st, LispError("Symbol " \o first \o " must evaluate to a function")))
    ELSE LET w == SetFirst(ast, st, func.val) IN
         Leaf(func.deep,
              Call(w.st, w.ast, env, Frame("evaluate", 47, w.ast, env, "", None, <<>>)))

\* lines 32-52: isinstance(first, basestring) enters two levels of the host
\* stack, the check of the instance and the call of basestring's
\* __instancecheck__, as first is never of the very type basestring
evaluateList(ast, env, st) ==
    LET first == First(ast, st) IN
    Leaf(2,
      IF is_symbol(ValueOf(first))
      THEN IF ValueOf(first).v \in allCommands
           THEN Sub(evalCommand(ValueOf(first).v, Rest(ast), env, st))
           ELSE evaluateSymbolHead(ast, ValueOf(first).v, env, st)
      ELSE IF is_closure(ValueOf(first))
      THEN Sub(evalClosure(first, Rest(ast), env, st))
      ELSE Call(st, first, env, Frame("evaluate", 52, ast, env, "", None, <<>>)))

\* every path calls a predicate first
evaluate(ast, env, st) ==
    Leaf(1,
      CASE is_symbol(ValueOf(ast)) -> Sub(lookup(st, env, ValueOf(ast).v))
        [] is_boolean(ValueOf(ast)) \/ is_integer(ValueOf(ast)) -> Ret(st, ObjectOf(ast))
        [] is_closure(ValueOf(ast)) -> Sub(evalClosure(ast, EmptyList, env, st))
        [] is_list(ValueOf(ast)) /\ LenOf(ast) > 0 -> evaluateList(ast, env, st)
        [] OTHER -> Raise(st, LispError("Invalid AST: []")))

\* line 52: the head expression returned; lines 47 and 57: the re-evaluated
\* list and the rest of the list returned
evaluateResume(f, firstEval, st) ==
    IF f.line = 52
    THEN IF is_closure(firstEval)
         THEN Leaf(1, Sub(evalClosure(First(f.ast, st), Rest(f.ast), f.env, st)))
         ELSE IF LenOf(f.ast) > 1
              THEN Leaf(1, Call(st, Rest(f.ast), f.env,
                                Frame("evaluate", 57, f.ast, f.env, "", None, <<>>)))
              ELSE Leaf(1, Ret(st, firstEval))
    ELSE Ret(st, firstEval)

(***************************************************************************)
(* Programs handed to the evaluator: what parse produces for the source    *)
(* text in the comments.                                                    *)
(***************************************************************************)
Lits == 0..MaxLit

quote(x) == L(<<S("quote"), x>>)
define(name, e) == L(<<S("define"), S(name), e>>)
lambda(params, body) == L(<<S("lambda"), L(params), body>>)
print(e) == L(<<S("print"), e>>)
op2(c, x, y) == L(<<S(c), x, y>>)
call1(f, x) == L(<<S(f), x>>)

\* ((lambda (x) x) n)   and   ((lambda (x y) (- x y)) a b)
IdentityCall(n) == L(<<lambda(<<S("x")>>, S("x")), I(n)>>)
SubCall(a, b) ==
    L(<<lambda(<<S("x"), S("y")>>, op2("-", S("x"), S("y"))), I(a), I(b)>>)
HeadCallPrograms ==
    {IdentityCall(n) : n \in Lits} \cup {SubCall(a, b) : a, b \in Lits}

\* ((define f (lambda (x) a)) (define g (lambda (y) (f y))) (print (g 0))
\*  (define f (lambda (x) b)) (print (g 0)))
RebindHead(a, b) ==
    L(<<define("f", lambda(<<S("x")>>, I(a))),
        define("g", lambda(<<S("y")>>, call1("f", S("y")))),
        print(call1("g", I(0))),
        define("f", lambda(<<S("x")>>, I(b))),
        print(call1("g", I(0)))>>)
\* ((define v a) (define g (lambda (y) v)) (print (g 0)) (define v b) (print (g 0)))
RebindValue(a, b) ==
    L(<<define("v", I(a)),
        define("g", lambda(<<S("y")>>, S("v"))),
        print(call1("g", I(0))),
        define("v", I(b)),
        print(call1("g", I(0)))>>)
RebindPrograms ==
    {RebindHead(a, b) : a, b \in Lits} \cup {RebindValue(a, b) : a, b \in Lits}

\* the program of test.py, with (fact a) and (fact b)
FactProgram(a, b) ==
    L(<<define("fact",
          lambda(<<S("n")>>,
            L(<<S("if"), op2("eq", S("n"), I(0)),
                I(1),
                op2("*", S("n"), call1("fact", op2("-", S("n"), I(1))))>>))),
        print(call1("fact", I(a))),
        print(call1("fact", I(b)))>>)
FactPrograms == {FactProgram(a, b) : a, b \in 0..MaxFact}

\* (atom E), and ((define x n) (atom x))
AtomOf(e) == L(<<S("atom"), e>>)
AtomBound(n) == L(<<define("x", I(n)), AtomOf(S("x"))>>)
\* the argument expressions E with the kind of value each evaluates to
AtomArgs ==
    {<<op2("+", I(1), I(2)), "int">>,
     <<I(1), "int">>,
     <<B(TRUE), "bool">>,
     <<quote(S("a")), "sym">>,
     <<quote(L(<<I(1), I(2)>>)), "list">>,
     <<quote(L(<<>>)), "list">>,
     <<op2("cons", I(1), quote(L(<<>>))), "list">>,
     <<lambda(<<S("x")>>, S("x")), "closure">>}
AtomPrograms ==
    {AtomOf(c[1]) : c \in AtomArgs} \cup {AtomBound(n) : n \in Lits}

\* (empty E)
EmptyOf(e) == L(<<S("empty"), e>>)
\* the argument expressions E with the length of the list each denotes
EmptyArgs ==
    {<<L(<<>>), 0>>,
     <<op2("cons", I(1), L(<<>>)), 1>>,
     <<quote(L(<<>>)), 0>>,
     <<quote(L(<<I(1)>>)), 1>>,
     <<op2("cons", I(1), quote(L(<<>>))), 1>>,
     <<L(<<S("tail"), quote(L(<<I(1)>>))>>), 0>>,
     <<L(<<S("tail"), quote(L(<<I(1), I(2)>>))>>), 1>>}
EmptyPrograms == {EmptyOf(c[1]) : c \in EmptyArgs}

\* (op X Y) for every arithmetic operator and operand expressions of every
\* kind of value
IntOperands == {I(n) : n \in Lits}
OtherOperands ==
    {B(TRUE), B(FALSE), quote(S("a")), quote(S("-1")), quote(L(<<I(1)>>)),
     lambda(<<S("x")>>, S("x")), define("z", I(1))}
Operands == IntOperands \cup OtherOperands
ArithPrograms == {op2(c, x, y) : c \in arithmeticOps, x, y \in Operands}

\* forms with a wrong number of arguments, or a define of a non-symbol,
\* whose argument expressions print and define
Effects == <<print(I(1)), define("y", I(2)), print(I(3))>>
Arity(c) ==
    CASE c \in {"quote", "atom", "print", "head", "tail", "empty"} -> 1
      [] c = "if" -> 3
      [] OTHER -> 2
WrongArityCommand(c, n) == L(<<S(c)>> \o SubSeq(Effects, 1, n))
\* ((define f (lambda params 0)) (f e1 .. en))
WrongArityCall(params, n) ==
    L(<<define("f", lambda(params, I(0))), L(<<S("f")>> \o SubSeq(Effects, 1, n))>>)
BadDefine(x) == L(<<S("define"), x, print(I(1))>>)
WrongArityCommands ==
    {WrongArityCommand(cn[1], cn[2]) :
        cn \in {x \in allCommands \X (0..3) : x[2] # Arity(x[1])}}
WrongArityCalls ==
    {WrongArityCall(<<S("x")>>, n) : n \in {0, 2, 3}} \cup
    {WrongArityCall(<<S("x"), S("w")>>, n) : n \in {0, 1, 3}}
BadDefines ==
    {BadDefine(x) : x \in {I(5), B(TRUE), print(I(2)), quote(S("y")), L(<<>>)}}
FailFastPrograms == WrongArityCommands \cup WrongArityCalls \cup BadDefines

\* ((define f (lambda (p q) (print c))) (f (print a) (print b)))
OrderCall(a, b, c) ==
    L(<<define("f", lambda(<<S("p"), S("q")>>, print(I(c)))),
        L(<<S("f"), print(I(a)), print(I(b))>>)>>)
\* ((define x a) (define mk (lambda (x) (lambda (p q) (print (cons x (cons p (cons q (quote ()))))))))
\*  (define f (mk c)) (f (print x) (print (+ x 1))))
OrderEnv(a, c) ==
    L(<<define("x", I(a)),
        define("mk", lambda(<<S("x")>>,
            lambda(<<S("p"), S("q")>>,
                print(op2("cons", S("x"),
                      op2("cons", S("p"),
                      op2("cons", S("q"), quote(L(<<>>))))))))),
        define("f", call1("mk", I(c))),
        L(<<S("f"), print(S("x")), print(op2("+", S("x"), I(1)))>>)>>)
OrderPrograms ==
    {OrderCall(a, b, c) : a, b, c \in Lits} \cup {OrderEnv(a, c) : a, c \in Lits}

\* ((define f (lambda (p) (define z p))) (f a) z)
LocalDefine(a) ==
    L(<<define("f", lambda(<<S("p")>>, define("z", S("p")))),
        call1("f", I(a)),
        S("z")>>)
\* ((define z a) (define f (lambda (p) (define z p))) (f b) (print z))
ShadowDefine(a, b) ==
    L(<<define("z", I(a)),
        define("f", lambda(<<S("p")>>, define("z", S("p")))),
        call1("f", I(b)),
        print(S("z"))>>)
\* ((define mk (lambda (z) (lambda (p) (define z p)))) (define f (mk a))
\*  (define h (lambda (w) (f w))) (h b))
NestedDefine(a, b) ==
    L(<<define("mk", lambda(<<S("z")>>, lambda(<<S("p")>>, define("z", S("p"))))),
        define("f", call1("mk", I(a))),
        define("h", lambda(<<S("w")>>, call1("f", S("w")))),
        call1("h", I(b))>>)
BodyDefinePrograms ==
    {LocalDefine(a) : a \in Lits} \cup
    {ShadowDefine(a, b) : a, b \in Lits} \cup
    {NestedDefine(a, b) : a, b \in Lits}

\* lambda forms with and without parameters
LambdaPrograms ==
    {lambda(<<S("x")>>, print(I(9))),
     lambda(<<>>, lambda(<<S("x")>>, print(S("x")))),
     lambda(<<>>, lambda(<<>>, lambda(<<S("x"), S("y")>>, print(I(9))))),
     lambda(<<>>, I(5)),
     lambda(<<>>, print(I(1))),
     L(<<define("f", lambda(<<>>, lambda(<<S("x")>>, print(I(9))))), S("f")>>),
     L(<<define("f", lambda(<<S("x")>>, print(I(9)))), call1("f", I(1)), S("f")>>),
     L(<<lambda(<<>>, lambda(<<S("x")>>, S("x"))), I(5)>>)}

\* other forms: the list operators, if, eq and the sequence rule
\* e within k lists of one element
RECURSIVE Wrap(_, _)
Wrap(e, k) == IF k = 0 THEN e ELSE L(<<Wrap(e, k - 1)>>)

\* (define loop (lambda (n) (if (eq n 0) e' (loop (- n 1))))), e' being e
\* within k lists
Loop(e, k) ==
    define("loop", lambda(<<S("n")>>,
       L(<<S("if"), op2("eq", S("n"), I(0)), Wrap(e, k),
           call1("loop", op2("-", S("n"), I(1)))>>)))

\* a recursion of 197 calls that ends in the expression e within k lists:
\* e is evaluated 996 + k frames deep on the host stack
DeepLeaf(e, k) == L(<<Loop(e, k), call1("loop", I(197))>>)

\* x within three lists
Nest(x) == L(<<L(<<L(<<x>>)>>)>>)

\* (eq x y) at the end of a recursion of n calls, within k lists; w and v
\* are bound to two lists (((1))), x to the list w is bound to, p and r to
\* two lists made by cons of that one list as their only item
DeepEq(x, y, n, k) ==
    L(<<define("w", quote(Nest(I(1)))), define("v", quote(Nest(I(1)))),
        define("x", S("w")),
        define("p", op2("cons", S("w"), quote(L(<<>>)))),
        define("r", op2("cons", S("w"), quote(L(<<>>)))),
        Loop(op2("eq", S(x), S(y)), k), call1("loop", I(n))>>)

DeepLeafPrograms ==
    {DeepLeaf(I(7), 3),
     DeepLeaf(quote(S("a")), 3),
     DeepLeaf(L(<<S("head"), I(1), I(2)>>), 2),
     DeepLeaf(L(<<S("quote")>>), 2),
     DeepLeaf(call1("n", I(1)), 3),
     DeepEq("w", "v", 195, 5),
     DeepEq("x", "w", 195, 5),
     DeepEq("p", "r", 195, 5)}

OtherPrograms ==
    {L(<<S("head"), quote(L(<<I(1), I(2)>>))>>),
     L(<<S("head"), quote(L(<<>>))>>),
     L(<<S("tail"), quote(L(<<>>))>>),
     L(<<S("tail"), I(1)>>),
     op2("cons", I(1), I(2)),
     L(<<S("if"), L(<<>>), I(1), I(2)>>),
     L(<<S("if"), quote(L(<<>>)), I(1), I(2)>>),
     L(<<S("if"), I(0), print(I(1)), print(I(2))>>),
     op2("eq", I(1), B(TRUE)),
     op2("eq", quote(L(<<I(1)>>)), op2("cons", I(1), quote(L(<<>>)))),
     op2("eq", lambda(<<S("x")>>, S("x")), lambda(<<S("x")>>, S("x"))),
     op2("eq", quote(Nest(I(1))), quote(Nest(I(1)))),
     op2("eq", quote(Nest(S("ab"))), quote(L(<<L(<<S("ab")>>)>>))),
     op2("eq", quote(L(<<I(1), Nest(I(2))>>)), quote(L(<<I(1), Nest(I(3))>>))),
     L(<<I(1), S("quote"), S("a")>>),
     L(<<I(1), I(2)>>),
     L(<<S("g"), I(1)>>),
     L(<<define("g", I(1)), call1("g", I(2))>>),
     L(<<define("f", lambda(<<S("x")>>, call1("f", S("x")))), call1("f", I(1))>>),
     L(<<define("f", lambda(<<I(1), B(TRUE)>>, I(5))),
         L(<<S("f"), print(I(1)), print(I(2))>>)>>),
     L(<<define("f", lambda(<<S("x"), I(5), S("x")>>, S("x"))),
         L(<<S("f"), I(1), I(2), I(3)>>)>>),
     L(<<define("f", lambda(<<L(<<>>)>>, I(5))), call1("f", print(I(1)))>>),
     L(<<define("loop", lambda(<<S("n")>>,
            L(<<S("if"), op2("eq", S("n"), I(0)), I(0),
                call1("loop", op2("-", S("n"), I(1)))>>))),
         print(call1("loop", I(40)))>>),
     op2("+", quote(S("+5")), quote(S(" 12 "))),
     op2("+", quote(S("1x")), I(1)),
     op2("+", quote(S("-")), I(1)),
     op2("+", quote(S("- 5")), I(1)),
     op2("*", I(2), quote(S(" +\t5\n"))),
     op2("-", quote(S("-7")), quote(S("7"))),
     op2("+", quote(S("- -5")), I(1)),
     op2("+", quote(S("5 5")), I(1)),
     op2("+", quote(S(" ")), I(1)),
     L(<<>>),
     I(7),
     S("u")}

Programs ==
    HeadCallPrograms \cup RebindPrograms \cup FactPrograms \cup AtomPrograms
    \cup EmptyPrograms \cup ArithPrograms \cup FailFastPrograms
    \cup OrderPrograms \cup BodyDefinePrograms \cup LambdaPrograms
    \cup OtherPrograms \cup DeepLeafPrograms

(***************************************************************************)
(* The driver and the steps of the evaluation.                              *)
(***************************************************************************)
NoRewrites == [p \in {} |-> None]

Store == [envs |-> envs, rew |-> rew, out |-> out, nclo |-> nclo, nobj |-> nobj]

Calling(ast, env) == [mode |-> "call", ast |-> ast, env |-> env, val |-> None]
Returning(val) == [mode |-> "ret", ast |-> EmptyList, env |-> 0, val |-> val]
Idle == [mode |-> "idle", ast |-> EmptyList, env |-> 0, val |-> None]

\* the state in which test.py is about to call
\* evaluate(parse(program), Environment())
Init ==
    /\ program \in Programs
    /\ pc = "ready"
    /\ ncalls = 0
    /\ ctl = Idle
    /\ stack = <<>>
    /\ envs = <<Environment>>
    /\ rew = NoRewrites
    /\ out = <<>>
    /\ nclo = 0
    /\ nobj = 0
    /\ result = None
    /\ err = NoError

\* the host frames from an evaluate activation (not counted) to the
\* suspended function's own frame (counted): none for evaluate itself, one
\* for evalClosure, evalCommand and the handler, with evalListCommand
\* between them for a list command
OwnFrame(f) ==
    CASE f.fn = "evaluate" -> 0
      [] f.fn = "evalClosure" -> 1
      [] f.fn \in {"evalConsCommand", "evalHeadCommand", "evalTailCommand",
                  "evalEmptyCommand"} -> 3
      [] OTHER -> 2

\* the levels of the host stack from an evaluate activation (not counted)
\* to the nested evaluate call (counted) that the frame waits for; map's
\* call of the lambda and the lambda's frame are between evalClosure and
\* the evaluate call of an argument
HostFrames(f) ==
    OwnFrame(f) + (IF f.fn = "evalClosure" /\ f.line = 183 THEN 3 ELSE 1)

\* the outcome o of the function suspended in f, seen from the evaluate
\* activation f belongs to
In(f, o) == [o EXCEPT !.deep = @ + OwnFrame(f)]

\* test.py's module code is frame 1, its evaluate call frame 2
BaseDepth == 2

\* the run ends with the exception e, which no frame catches
Fail(e) ==
    /\ ctl' = Idle
    /\ stack' = <<>>
    /\ pc' = "done"
    /\ result' = None
    /\ err' = e

\* the outcome o of the step taken within the evaluate activation at depth
\* `at`, the frames below it being `below`.  A call the step made that does
\* not fit in the host stack ends the run before the step has changed
\* anything; so does, with the changes made, a nested evaluate call whose
\* own first call (is_symbol) does not fit.  Otherwise a return hands the
\* value to the frame on top, a raise unwinds all frames, a nested
\* evaluate call pushes the frame left behind
Do(o, below, at) ==
    /\ UNCHANGED <<program, ncalls>>
    /\ IF at + o.deep > RecursionLimit
       THEN /\ Fail(HostError("RuntimeError"))
            /\ UNCHANGED <<envs, rew, out, nclo, nobj>>
       ELSE /\ envs' = o.st.envs
            /\ rew' = o.st.rew
            /\ out' = o.st.out
            /\ nclo' = o.st.nclo
            /\ nobj' = o.st.nobj
            /\ CASE o.t = "ret" ->
                      /\ ctl' = Returning(o.val)
                      /\ stack' = below
                      /\ UNCHANGED <<pc, result, err>>
                 [] o.t = "call" /\ at + HostFrames(o.frame) < RecursionLimit ->
                      /\ ctl' = Calling(o.ast, o.env)
                      /\ stack' = Append(below,
                           [o.frame EXCEPT !.depth = at + HostFrames(o.frame)])
                      /\ UNCHANGED <<pc, result, err>>
                 [] o.t = "call" -> Fail(HostError("RuntimeError"))
                 [] OTHER -> Fail(o.err)

\* test.py: evaluate(parse(program), Environment())
Start ==
    /\ pc = "ready"
    /\ pc' = "running"
    /\ ncalls' = 1
    /\ ctl' = Calling(Node(<<>>), 1)
    /\ UNCHANGED <<program, stack, envs, rew, out, nclo, nobj, result, err>>

\* a driver hands the Closure an evaluation returned back to evaluate
StartClosure ==
    /\ pc = "done"
    /\ ncalls = 1
    /\ err.type = ""
    /\ is_closure(result)
    /\ pc' = "running"
    /\ ncalls' = 2
    /\ ctl' = Calling(Obj(result), 1)
    /\ UNCHANGED <<program, stack, envs, rew, out, nclo, nobj, result, err>>

\* evaluate is entered
Enter ==
    /\ pc = "running"
    /\ ctl.mode = "call"
    /\ Do(evaluate(ctl.ast, ctl.env, Store), stack,
          IF stack = <<>> THEN BaseDepth ELSE stack[Len(stack)].depth)

Top == stack[Len(stack)]
Below == SubSeq(stack, 1, Len(stack) - 1)
\* the depth of the evaluate activation the top frame belongs to
Depth == Top.depth - HostFrames(Top)

\* a nested evaluate call returned into the function fn
Resumes(fn) ==
    /\ pc = "running"
    /\ ctl.mode = "ret"
    /\ stack # <<>>
    /\ Top.fn = fn

ResumeEvaluate ==
    Resumes("evaluate") /\ Do(In(Top, evaluateResume(Top, ctl.val, Store)), Below, Depth)
ResumeEq ==
    Resumes("evalEqCommand") /\ Do(In(Top, evalEqCommandResume(Top, ctl.val, Store)), Below, Depth)
ResumeIf ==
    Resumes("evalIfCommand") /\ Do(In(Top, evalIfCommandResume(Top, ctl.val, Store)), Below, Depth)
ResumeDefine ==
    Resumes("evalDefineCommand")
    /\ Do(In(Top, evalDefineCommandResume(Top, ctl.val, Store)), Below, Depth)
ResumePrint ==
    Resumes("evalPrintCommand")
    /\ Do(In(Top, evalPrintCommandResume(Top, ctl.val, Store)), Below, Depth)
ResumeArithmetic ==
    Resumes("evalArithmeticCommand")
    /\ Do(In(Top, evalArithmeticCommandResume(Top, ctl.val, Store)), Below, Depth)
ResumeLambda ==
    Resumes("evalLambdaCommand")
    /\ Do(In(Top, evalLambdaCommandResume(Top, ctl.val, Store)), Below, Depth)
ResumeClosure ==
    Resumes("evalClosure") /\ Do(In(Top, evalClosureResume(Top, ctl.val, Store)), Below, Depth)
ResumeCons ==
    Resumes("evalConsCommand")
    /\ Do(In(Top, evalConsCommandResume(Top, ctl.val, Store)), Below, Depth)
ResumeHead ==
    Resumes("evalHeadCommand")
    /\ Do(In(Top, evalHeadCommandResume(Top, ctl.val, Store)), Below, Depth)
ResumeTail ==
    Resumes("evalTailCommand")
    /\ Do(In(Top, evalTailCommandResume(Top, ctl.val, Store)), Below, Depth)
ResumeEmpty ==
    Resumes("evalEmptyCommand")
    /\ Do(In(Top, evalEmptyCommandResume(Top, ctl.val, Store)), Below, Depth)

\* the outermost evaluate returns to the driver
Finish ==
    /\ pc = "running"
    /\ ctl.mode = "ret"
    /\ stack = <<>>
    /\ pc' = "done"
    /\ result' = ctl.val
    /\ ctl' = Idle
    /\ UNCHANGED <<program, ncalls, stack, envs, rew, out, nclo, nobj, err>>

Next ==
    \/ Start
    \/ StartClosure
    \/ Enter
    \/ ResumeEvaluate
    \/ ResumeEq
    \/ ResumeIf
    \/ ResumeDefine
    \/ ResumePrint
    \/ ResumeArithmetic
    \/ ResumeLambda
    \/ ResumeClosure
    \/ ResumeCons
    \/ ResumeHead
    \/ ResumeTail
    \/ ResumeEmpty
    \/ Finish

Spec == Init /\ [][Next]_vars

\* single-threaded and synchronous: the running evaluation always takes its
\* next step
FairSpec == Spec /\ WF_vars(Next)

(***************************************************************************)
(* Properties.                                                              *)
(***************************************************************************)
\* the first evaluate call of the driver is over
Done == pc = "done" /\ ncalls = 1

Returned(v) == err.type = "" /\ result = v

\* the item of a binding map for a symbol, and the value bound to a symbol
Item(symbol, val) == [key |-> S(symbol), val |-> val]
Bound(dict, symbol) == dict[Index(dict, S(symbol))].val

IsPrefix(s, t) == Len(s) <= Len(t) /\ s = SubSeq(t, 1, Len(s))

RECURSIVE Factorial(_)
Factorial(n) == IF n = 0 THEN 1 ELSE n * Factorial(n - 1)

\* C1: a list whose head is a lambda expression (neither a Symbol nor a
\* Closure) that evaluates to a Closure is the application of that Closure
\* to the remaining elements: ((lambda (x) x) n) returns n and
\* ((lambda (x y) (- x y)) a b) returns a - b.
C1_HeadExpressionApplied ==
    Done =>
      /\ \A n \in Lits : program = IdentityCall(n) => Returned(I(n))
      /\ \A a, b \in Lits : program = SubCall(a, b) => Returned(I(a - b))

\* C2: a closure called again after a free symbol of its body was rebound by
\* define sees the new binding, as a value and as the head of a call: the
\* two prints emit the value bound at the time of each call.
C2_RebindingSeen ==
    Done =>
      \A a, b \in Lits :
        (program = RebindHead(a, b) \/ program = RebindValue(a, b))
          => err.type = "" /\ out = <<I(a), I(b)>>

FactorialDone ==
    /\ pc = "done"
    /\ \E a, b \in 0..MaxFact :
         /\ program = FactProgram(a, b)
         /\ out = <<I(Factorial(a)), I(Factorial(b))>>
         /\ err.type = ""
         /\ Plain(result) = I(Factorial(b))
\* a step of a factorial program that emits a value is the return of a
\* print form with that very value: a! the first time, b! the second
PrintReturnsEmitted ==
    \A a, b \in 0..MaxFact :
      (program = FactProgram(a, b) /\ out' # out) =>
        /\ ctl'.mode = "ret"
        /\ out' = Append(out, Plain(ctl'.val))
        /\ Plain(ctl'.val) = I(Factorial(IF out = <<>> THEN a ELSE b))
\* C3: the factorial program of test.py terminates for all bounded a and b,
\* having printed exactly a! then b!; each print form returns the value it
\* emitted, and the result is b!, the value of the last print form.
C3_FactorialTerminates ==
    /\ (program \in FactPrograms) ~> FactorialDone
    /\ [][PrintReturnsEmitted]_vars
C3_Witness ==
    /\ pc = "done"
    /\ program = FactProgram(3, 6)
    /\ out = <<I(6), I(720)>>
    /\ Plain(result) = I(720)
    /\ result.id # Anon

\* C4: (atom E) evaluates E and returns true exactly when the value is an
\* Integer, a Boolean or a Symbol.
C4_AtomOfEvaluatedArgument ==
    Done =>
      /\ \A c \in AtomArgs :
           program = AtomOf(c[1]) => Returned(B(c[2] \in {"int", "bool", "sym"}))
      /\ \A n \in Lits : program = AtomBound(n) => Returned(B(TRUE))

\* C5: (empty E) returns true exactly when E denotes the list of zero
\* elements, the literal empty list included.
C5_EmptyOnZeroLength ==
    Done =>
      \A c \in EmptyArgs : program = EmptyOf(c[1]) => Returned(B(c[2] = 0))

\* C6: an arithmetic operator applied to two arguments of which one does not
\* evaluate to an Integer fails and returns no value.
C6_NonIntegerOperandFails ==
    Done =>
      \A c \in arithmeticOps : \A x, y \in Operands :
        (program = op2(c, x, y) /\ (x \notin IntOperands \/ y \notin IntOperands))
          => err.type # "" /\ result = None

\* C7: a command or closure call with a wrong number of arguments, and a
\* define of a non-symbol, fail before any argument expression of the form
\* is evaluated: no nested evaluation of the form is ever begun, nothing is
\* printed and nothing is bound by the form.
C7_FailsBeforeArguments ==
    program \in FailFastPrograms =>
      /\ out = <<>>
      /\ \A e \in 1..Len(envs) : S("y") \notin Keys(envs[e].vars)
      /\ \A i \in 1..Len(stack) :
           stack[i].fn \in {"evaluate", "evalDefineCommand"}
      /\ program \notin WrongArityCalls => stack = <<>> /\ envs = <<Environment>>
      /\ program \in WrongArityCalls => Len(envs) = 1 /\ Keys(envs[1].vars) \subseteq {S("f")}
      /\ pc = "done" => err.type = "LispError" /\ result = None
C7_Witness ==
    /\ Done
    /\ program = WrongArityCall(<<S("x")>>, 2)
    /\ err.msg = "1 parameters expected by function, 2 are passed"
    /\ Keys(envs[1].vars) = {S("f")}

OrderCallOutput(a, b, c) == <<I(a), I(b), I(c)>>
OrderEnvOutput(a, c) == <<I(a), I(a + 1), L(<<I(c), I(a), I(a + 1)>>)>>
\* C8: the argument expressions of a closure call are evaluated in the
\* caller's environment, left to right, each once and all before the body:
\* at every moment the output is a prefix of the arguments' outputs in
\* order followed by the body's output, and it is all of it at the end.
C8_ArgumentsInOrderBeforeBody ==
    /\ \A a, b, c \in Lits :
         program = OrderCall(a, b, c) =>
           /\ IsPrefix(out, OrderCallOutput(a, b, c))
           /\ Done => err.type = "" /\ out = OrderCallOutput(a, b, c)
    /\ \A a, c \in Lits :
         program = OrderEnv(a, c) =>
           /\ IsPrefix(out, OrderEnvOutput(a, c))
           /\ Done => err.type = "" /\ out = OrderEnvOutput(a, c)
C8_Witness ==
    /\ Done
    /\ program = OrderEnv(1, 2)
    /\ out = OrderEnvOutput(1, 2)

\* C9: a define in a closure body binds in the fresh environment of the call
\* only: the bindings of the defining environment, of its ancestors and of
\* the caller's environment are as before the call, and the symbol is not
\* found from the caller's environment afterwards.
C9_BodyDefineIsLocal ==
    Done =>
      /\ \A a \in Lits :
           program = LocalDefine(a) =>
             /\ err.msg = "UnboundSymbolError"
             /\ Keys(envs[1].vars) = {S("f")}
             /\ envs[2] = [parent |-> 1, vars |-> <<Item("p", I(a)), Item("z", I(a))>>]
      /\ \A a, b \in Lits :
           program = ShadowDefine(a, b) =>
             /\ err.type = ""
             /\ out = <<I(a)>>
             /\ Keys(envs[1].vars) = {S("z"), S("f")}
             /\ Bound(envs[1].vars, "z") = I(a)
             /\ envs[2] = [parent |-> 1, vars |-> <<Item("p", I(b)), Item("z", I(b))>>]
      /\ \A a, b \in Lits :
           program = NestedDefine(a, b) =>
             /\ err.type = ""
             /\ Keys(envs[1].vars) = {S("mk"), S("f"), S("h")}
             /\ envs[2] = [parent |-> 1, vars |-> <<Item("z", I(a))>>]
             /\ envs[3] = [parent |-> 1, vars |-> <<Item("w", I(b))>>]
             /\ envs[4] = [parent |-> 2, vars |-> <<Item("p", I(b)), Item("z", I(b))>>]
C9_Witness ==
    /\ Done
    /\ program = NestedDefine(1, 2)
    /\ Len(envs) = 4
    /\ Bound(envs[4].vars, "z") = I(2)
    /\ Bound(envs[2].vars, "z") = I(1)

RECURSIVE HasParams(_)
HasParams(v) ==
    CASE v.k = "closure" -> Len(v.v.params) >= 1
      [] v.k = "list" -> \A i \in 1..Len(v.v) : HasParams(v.v[i])
      [] OTHER -> TRUE
ClosuresHaveParams ==
    /\ HasParams(result)
    /\ HasParams(ctl.val)
    /\ HasParams(ctl.ast.hd)
    /\ \A e \in 1..Len(envs) : \A i \in 1..Len(envs[e].vars) :
         HasParams(envs[e].vars[i].key) /\ HasParams(envs[e].vars[i].val)
    /\ \A p \in DOMAIN rew : HasParams(rew[p])
    /\ \A i \in 1..Len(out) : HasParams(out[i])
    /\ \A i \in 1..Len(stack) :
         /\ HasParams(stack[i].closure)
         /\ HasParams(stack[i].ast.hd)
         /\ \A j \in 1..Len(stack[i].vals) : HasParams(stack[i].vals[j])
ParameterCountErrors ==
    {ToString(n) \o " parameters expected by function, 0 are passed" : n \in 1..3}
\* C10: every Closure value has at least one parameter, and evaluate on a
\* bare Closure fails with the parameter-count error without a nested
\* evaluation (of the body or of anything else) ever beginning.
C10_ClosuresHaveParameters ==
    /\ ClosuresHaveParams
    /\ ncalls = 2 =>
         /\ stack = <<>>
         /\ pc = "done" => err.type = "LispError" /\ err.msg \in ParameterCountErrors
C10_Witness ==
    /\ pc = "done"
    /\ ncalls = 2
    /\ program = lambda(<<>>, lambda(<<S("x")>>, print(S("x"))))
    /\ err.msg = "1 parameters expected by function, 0 are passed"
    /\ out = <<>>

====
